---- MODULE Spec2Model ----
(***************************************************************************)
(* Model of cron/chain.go: the JobWrapper chain (Chain.Then) and the three *)
(* wrappers Recover, DelayIfStillRunning and SkipIfStillRunning, invoked   *)
(* by concurrent goroutines of a scheduler.                                *)
(*                                                                         *)
(* A Job is modelled by its layers, outermost first: a wrapper applied to  *)
(* a Job j yields the closure <<layer>> \o j, and the unwrapped Job is the *)
(* single layer "Job".  Every layer owns the synchronisation state         *)
(* its wrapper allocated when it was applied (mu for Delay, ch for Skip).  *)
(* Every invocation of the wrapped Job is a goroutine with a call stack:   *)
(* depth[i] is the frame it is in, pc[i] what it does there.               *)
(***************************************************************************)
EXTENDS Naturals, Sequences, FiniteSets

\* ------------------------------------------------------------------ bounds
\* number of invocations (goroutines) the scheduler issues of a Job wrapped
\* by Recover or by SkipIfStillRunning
NumInv == 3
\* number of invocations it issues of a Job wrapped by DelayIfStillRunning
NumDelayInv == 2
\* longest chain of wrappers
MaxChain == 2
\* longest wait in mu.Lock() that is followed, in clock ticks
MaxTime == 2

\* time.Minute, in clock ticks (one tick of the model's clock is a minute)
Minute == 1

Invs == 1..NumInv
Kinds == {"Recover", "Delay", "Skip"}
\* what the inner operation may pass to panic(): nil or a marker value
PanicValues == {"nil", "boom"}
NoPanic == "none"

SeqsUpTo(S, n) == UNION {[1..k -> S] : k \in 0..n}

VARIABLES
  wrappers,   \* Chain.wrappers: the kinds of the JobWrappers, in order
  registered, \* whether the scheduler has called Then
  jobOf,      \* jobOf[i]: the Job, among those the scheduler registers, that
              \*   invocation i is an invocation of
  job,        \* the Job Then returned for each of them: its layers, outermost first
  mu,         \* mu[j][d]: the sync.Mutex of layer d of wrapped Job j is locked
  ch,         \* ch[j][d]: number of values buffered in the channel of layer d of
              \*   wrapped Job j
  pc,         \* pc[i]: where goroutine i is: "none" (never issued), "new" (to be
              \*   issued), "call" (entering frame depth[i]), "lock" (in mu.Lock()),
              \*   "job" (in the operation), "ret"/"panic" (leaving frame depth[i]),
              \*   "done"/"failed" (back in the invoker, normally or by panic)
  depth,      \* depth[i]: the frame goroutine i is in (index of a layer of job)
  since,      \* since[i]: time.Since(start) in the Delay frame goroutine i waits
              \*   in, and dur, its value when mu.Lock() returned, from then on
  panicv,     \* panicv[i]: the value of the panic unwinding goroutine i
  log,        \* log[i]: the records goroutine i handed to the logger
  trace,      \* trace[i]: history of frame entries and exits of goroutine i
  fault,      \* history: fault[i]: the value the operation of goroutine i panicked with
  ran,        \* history: ran[i]: how long the operation of goroutine i has run
  overlap,    \* history: some invocation was issued while another had not returned
  lockOrder,  \* history: goroutines in the order they acquired a Delay lock
  runOrder    \* history: goroutines in the order their inner operation began

vars == <<wrappers, registered, jobOf, job, mu, ch, pc, depth, since, panicv,
          log, trace, fault, ran, overlap, lockOrder, runOrder>>

\* ---------------------------------------------------------------- Chain
\* The unwrapped Job j handed to Then: the operation itself, no wrapper.
BaseJob == <<[kind |-> "Job", w |-> 0]>>

\* A JobWrapper applied to a Job (chain.go: func(j Job) Job { ... return FuncJob(...) }):
\* a new closure around j, remembering which element of the chain made it.
Wrap(ws, k, j) == <<[kind |-> ws[k], w |-> k]>> \o j

\* Plausible bug: the loop of Then walks the wrappers front to back.
RECURSIVE ThenLoopForward(_, _, _)
ThenLoopForward(ws, j, i) ==
  IF i >= Len(ws) THEN j
  ELSE ThenLoopForward(ws, Wrap(ws, i + 1, j), i + 1)

\* for i := range c.wrappers { j = c.wrappers[len(c.wrappers)-i-1](j) }
\* (i is the Go index, from 0; sequences here start at 1)
RECURSIVE ThenLoop(_, _, _)
ThenLoop(ws, j, i) ==
  IF i >= Len(ws) THEN j
  ELSE ThenLoop(ws, Wrap(ws, (Len(ws) - i - 1) + 1, j), i + 1)

ThenForward(ws, j) == ThenLoopForward(ws, j, 0)

\* Plausible bug: the loop assigns each w(j) to a result of its own instead
\* of to j, so only one wrapper is kept and an empty chain yields no Job.
ThenKeepLast(ws, j) == IF ws = <<>> THEN <<>> ELSE Wrap(ws, 1, j)

\* func (c Chain) Then(j Job) Job
Then(ws, j) == ThenLoop(ws, j, 0)

\* ------------------------------------------------ synchronisation state
\* var mu sync.Mutex: unlocked
NewMutex == FALSE
\* make(chan struct{}, 1)
ChanCap == 1
\* ch <- struct{}{} right after make: one value buffered
NewChan == 1

\* The state the wrappers of job j allocate when they are applied.
AllocMu(j) == [d \in 1..Len(j) |-> NewMutex]
\* Plausible bug: the channel is made but ch <- struct{}{} is left out, so
\* that it starts without the token.
AllocChEmpty(j) == [d \in 1..Len(j) |-> 0]
AllocCh(j) == [d \in 1..Len(j) |-> IF j[d].kind = "Skip" THEN NewChan ELSE 0]

\* ------------------------------------------------------------- records
Event(e, k) == [ev |-> e, w |-> k]
ErrorRec(r) == [level |-> "error", msg |-> "panic", val |-> r, dur |-> 0]
SkipRec == [level |-> "info", msg |-> "skip", val |-> "", dur |-> 0]
DelayRec(d) == [level |-> "info", msg |-> "delay", val |-> "", dur |-> d]

\* ---------------------------------------------------------------- Init
\* The scheduler holds a Chain out of chains, has registered nothing, and is
\* going to issue the invocations 1..n, each of one of the Jobs in jobs.
InitOf(chains, n, jobs) ==
  /\ wrappers \in chains
  /\ jobOf \in {f \in [Invs -> jobs] : \A i \in Invs : i > n => f[i] = 1}
  /\ registered = FALSE
  /\ job = BaseJob
  /\ mu = <<>>
  /\ ch = <<>>
  /\ pc = [i \in Invs |-> IF i <= n THEN "new" ELSE "none"]
  /\ depth = [i \in Invs |-> 0]
  /\ since = [i \in Invs |-> 0]
  /\ panicv = [i \in Invs |-> NoPanic]
  /\ log = [i \in Invs |-> <<>>]
  /\ trace = [i \in Invs |-> <<>>]
  /\ fault = [i \in Invs |-> NoPanic]
  /\ ran = [i \in Invs |-> 0]
  /\ overlap = FALSE
  /\ lockOrder = <<>>
  /\ runOrder = <<>>

\* Any chain of at most MaxChain wrappers, and two invocations of its Job.
Init == InitOf(SeqsUpTo(Kinds, MaxChain), 2, {1})

\* ------------------------------------------------------------- actions
\* The Jobs the scheduler registers: those it is going to invoke.
JobIds == {jobOf[i] : i \in {k \in Invs : pc[k] # "none"}}

\* The scheduler registers its Jobs: for each, Then applies the wrappers (the
\* same nesting for every Job), and each application of a wrapper to a Job
\* allocates its own mutex or channel.
Register ==
  /\ ~registered
  /\ registered' = TRUE
  /\ job' = Then(wrappers, BaseJob)
  /\ mu' = [j \in JobIds |-> AllocMu(job')]
  /\ ch' = [j \in JobIds |-> AllocCh(job')]
  /\ UNCHANGED <<wrappers, jobOf, ran, overlap, fault, pc, depth, since, panicv, log, trace, lockOrder, runOrder>>

\* Invocation i has been issued and has not returned to its invoker.
Active(i) == pc[i] \in {"call", "lock", "job", "ret", "panic"}

\* The scheduler invokes the wrapped Job in a goroutine: job.Run().
Invoke(i) ==
  /\ registered
  /\ pc[i] = "new"
  /\ pc' = [pc EXCEPT ![i] = "call"]
  /\ depth' = [depth EXCEPT ![i] = 1]
  /\ overlap' = (overlap \/ \E k \in Invs \ {i} : Active(k))
  /\ UNCHANGED <<wrappers, jobOf, ran, fault, registered, job, mu, ch, since, panicv, log, trace,
                 lockOrder, runOrder>>

\* Plausible bug: var mu / var ch declared in the outer function, once per
\* JobWrapper value, so that every Job it wraps shares them.
PrimOfWrapper(i) == CHOOSE j \in JobIds : TRUE

\* The mutex and the channel the closure run by invocation i has captured:
\* those allocated when the wrappers were applied to its own Job.
Prim(i) == jobOf[i]

AtLayer(i, k) ==
  /\ pc[i] = "call"
  /\ depth[i] \in 1..Len(job)
  /\ job[depth[i]].kind = k

Unwinding(i, k) ==
  /\ pc[i] \in {"ret", "panic"}
  /\ depth[i] \in 1..Len(job)
  /\ job[depth[i]].kind = k

\* ------------------------------------------------------------- Recover
\* defer func() {...}() is registered, then j.Run() is called.
RecoverEnter(i) ==
  /\ AtLayer(i, "Recover")
  /\ depth' = [depth EXCEPT ![i] = @ + 1]
  /\ trace' = [trace EXCEPT ![i] = Append(@, Event("enter", job[depth[i]].w))]
  /\ UNCHANGED <<wrappers, jobOf, ran, overlap, fault, registered, job, mu, ch, pc, since, panicv, log,
                 lockOrder, runOrder>>

\* What recover() may return in a deferred function while the goroutine
\* unwinds with panic value p.  Without a panic it is nil.  For panic(nil) it
\* depends on the build: nil when the module's go directive is below 1.21 (or
\* GODEBUG=panicnil=1), a *runtime.PanicNilError otherwise.
RecoverResults(p) ==
  IF p = NoPanic THEN {"nil"}
  ELSE IF p = "nil" THEN {"nil", "PanicNilError"}
  ELSE {p}

\* if r := recover(); r != nil { logger.Errorf("panic: stack %v\n%s\n", r, debug.Stack()) }
RecoverLog(r) == IF r # "nil" THEN <<ErrorRec(r)>> ELSE <<>>

\* Plausible bug: the deferred function of Recover calls j.Run() once more
\* after it recovered a panic of the first call.
RecoverExitRetries(i) ==
  /\ Unwinding(i, "Recover")
  /\ \E r \in RecoverResults(panicv[i]) :
       log' = [log EXCEPT ![i] = @ \o RecoverLog(r)]
  /\ panicv' = [panicv EXCEPT ![i] = NoPanic]
  /\ IF pc[i] = "panic" /\ Len(SelectSeq(trace[i], LAMBDA e : e.ev = "job")) < 2
       THEN /\ pc' = [pc EXCEPT ![i] = "call"]
            /\ depth' = [depth EXCEPT ![i] = @ + 1]
            /\ trace' = trace
       ELSE /\ pc' = [pc EXCEPT ![i] = "ret"]
            /\ depth' = [depth EXCEPT ![i] = @ - 1]
            /\ trace' = [trace EXCEPT ![i] = Append(@, Event("exit", job[depth[i]].w))]
  /\ UNCHANGED <<wrappers, jobOf, ran, overlap, fault, registered, job, mu, ch, since, lockOrder,
                 runOrder>>

\* The deferred function of Recover runs, on return or on panic; recover()
\* stops the panic whatever its value, and the frame returns normally.
RecoverExit(i) ==
  /\ Unwinding(i, "Recover")
  /\ \E r \in RecoverResults(panicv[i]) :
       log' = [log EXCEPT ![i] = @ \o RecoverLog(r)]
  /\ pc' = [pc EXCEPT ![i] = "ret"]
  /\ panicv' = [panicv EXCEPT ![i] = NoPanic]
  /\ depth' = [depth EXCEPT ![i] = @ - 1]
  /\ trace' = [trace EXCEPT ![i] = Append(@, Event("exit", job[depth[i]].w))]
  /\ UNCHANGED <<wrappers, jobOf, ran, overlap, fault, registered, job, mu, ch, since, lockOrder, runOrder>>

\* ------------------------------------------------- DelayIfStillRunning
\* start := time.Now(); the goroutine then calls mu.Lock(), which may block.
DelayStart(i) ==
  /\ AtLayer(i, "Delay")
  /\ since' = [since EXCEPT ![i] = 0]
  /\ pc' = [pc EXCEPT ![i] = "lock"]
  /\ trace' = [trace EXCEPT ![i] = Append(@, Event("enter", job[depth[i]].w))]
  /\ UNCHANGED <<wrappers, jobOf, ran, overlap, fault, registered, job, mu, ch, depth, panicv, log,
                 lockOrder, runOrder>>

\* Plausible bug: the threshold compared with >=, so that a wait of exactly
\* one minute is logged.
DelayLogFromMinute(dur) == IF dur >= Minute THEN <<DelayRec(dur)>> ELSE <<>>

\* if dur := time.Since(start); dur > time.Minute { logger.Infof("delay duration=%v", dur) }
DelayLog(dur) == IF dur > Minute THEN <<DelayRec(dur)>> ELSE <<>>

\* Plausible bug: var mu sync.Mutex declared inside the FuncJob closure, a
\* fresh mutex per invocation, so that Lock never waits for another goroutine.
DelayLockOwnMutex(i) ==
  /\ pc[i] = "lock"
  /\ mu' = [mu EXCEPT ![Prim(i)][depth[i]] = TRUE]
  /\ log' = [log EXCEPT ![i] = @ \o DelayLog(since[i])]
  /\ pc' = [pc EXCEPT ![i] = "call"]
  /\ depth' = [depth EXCEPT ![i] = @ + 1]
  /\ lockOrder' = Append(lockOrder, i)
  /\ UNCHANGED <<wrappers, jobOf, ran, overlap, fault, registered, job, ch, since, panicv, trace,
                 runOrder>>

\* Plausible bug: start := time.Now() written after mu.Lock(), so that the
\* measured interval begins when the lock is acquired.
DelayLockStartsClock(i) ==
  /\ pc[i] = "lock"
  /\ mu[Prim(i)][depth[i]] = FALSE
  /\ mu' = [mu EXCEPT ![Prim(i)][depth[i]] = TRUE]
  /\ log' = [log EXCEPT ![i] = @ \o DelayLog(0)]
  /\ pc' = [pc EXCEPT ![i] = "call"]
  /\ depth' = [depth EXCEPT ![i] = @ + 1]
  /\ lockOrder' = Append(lockOrder, i)
  /\ UNCHANGED <<wrappers, jobOf, ran, overlap, fault, registered, job, ch, since, panicv, trace,
                 runOrder>>

\* mu.Lock() returns; defer mu.Unlock(); the wait is measured and logged;
\* j.Run() is called.
DelayLock(i) ==
  /\ pc[i] = "lock"
  /\ mu[Prim(i)][depth[i]] = FALSE
  /\ mu' = [mu EXCEPT ![Prim(i)][depth[i]] = TRUE]
  /\ log' = [log EXCEPT ![i] = @ \o DelayLog(since[i])]
  /\ pc' = [pc EXCEPT ![i] = "call"]
  /\ depth' = [depth EXCEPT ![i] = @ + 1]
  /\ lockOrder' = Append(lockOrder, i)
  /\ UNCHANGED <<wrappers, jobOf, ran, overlap, fault, registered, job, ch, since, panicv, trace,
                 runOrder>>

\* Plausible bug: mu.Unlock() written after j.Run() instead of deferred, so
\* that a panic unwinds the frame with the mutex still locked.
DelayUnlockNotDeferred(i) ==
  /\ Unwinding(i, "Delay")
  /\ mu' = [mu EXCEPT ![Prim(i)][depth[i]] = IF pc[i] = "panic" THEN @ ELSE FALSE]
  /\ depth' = [depth EXCEPT ![i] = @ - 1]
  /\ trace' = [trace EXCEPT ![i] = Append(@, Event("exit", job[depth[i]].w))]
  /\ UNCHANGED <<wrappers, jobOf, ran, overlap, fault, registered, job, ch, pc, since, panicv, log,
                 lockOrder, runOrder>>

\* The deferred mu.Unlock() runs, on return or on panic; a panic goes on.
DelayUnlock(i) ==
  /\ Unwinding(i, "Delay")
  /\ mu' = [mu EXCEPT ![Prim(i)][depth[i]] = FALSE]
  /\ depth' = [depth EXCEPT ![i] = @ - 1]
  /\ trace' = [trace EXCEPT ![i] = Append(@, Event("exit", job[depth[i]].w))]
  /\ UNCHANGED <<wrappers, jobOf, ran, overlap, fault, registered, job, ch, pc, since, panicv, log,
                 lockOrder, runOrder>>

\* -------------------------------------------------- SkipIfStillRunning
\* Plausible bug: a plain receive v := <-ch instead of the select with a
\* default case, so that an invocation waits for the token.
SkipReceiveBlocking(i) ==
  /\ AtLayer(i, "Skip")
  /\ ch[Prim(i)][depth[i]] > 0
  /\ ch' = [ch EXCEPT ![Prim(i)][depth[i]] = @ - 1]
  /\ depth' = [depth EXCEPT ![i] = @ + 1]
  /\ trace' = [trace EXCEPT ![i] = Append(@, Event("enter", job[depth[i]].w))]
  /\ UNCHANGED <<wrappers, jobOf, ran, overlap, fault, registered, job, mu, pc, since, panicv, log,
                 lockOrder, runOrder>>

\* Plausible bug: the select tests len(ch) > 0 instead of receiving, so the
\* token stays in the channel.
SkipSelectPeek(i) ==
  /\ AtLayer(i, "Skip")
  /\ \/ /\ ch[Prim(i)][depth[i]] > 0
        /\ depth' = [depth EXCEPT ![i] = @ + 1]
        /\ trace' = [trace EXCEPT ![i] = Append(@, Event("enter", job[depth[i]].w))]
        /\ UNCHANGED <<pc, log, ch>>
     \/ /\ ch[Prim(i)][depth[i]] = 0
        /\ log' = [log EXCEPT ![i] = Append(@, SkipRec)]
        /\ pc' = [pc EXCEPT ![i] = "ret"]
        /\ depth' = [depth EXCEPT ![i] = @ - 1]
        /\ trace' = [trace EXCEPT ![i] = @ \o <<Event("enter", job[depth[i]].w),
                                                Event("exit", job[depth[i]].w)>>]
        /\ UNCHANGED ch
  /\ UNCHANGED <<wrappers, jobOf, ran, overlap, fault, registered, job, mu, since, panicv, lockOrder, runOrder>>

\* Plausible bug: the default case returns without logger.Infof("skip").
SkipSelectSilent(i) ==
  /\ AtLayer(i, "Skip")
  /\ \/ /\ ch[Prim(i)][depth[i]] > 0
        /\ ch' = [ch EXCEPT ![Prim(i)][depth[i]] = @ - 1]
        /\ depth' = [depth EXCEPT ![i] = @ + 1]
        /\ trace' = [trace EXCEPT ![i] = Append(@, Event("enter", job[depth[i]].w))]
        /\ UNCHANGED <<pc, log>>
     \/ /\ ch[Prim(i)][depth[i]] = 0
        /\ pc' = [pc EXCEPT ![i] = "ret"]
        /\ depth' = [depth EXCEPT ![i] = @ - 1]
        /\ trace' = [trace EXCEPT ![i] = @ \o <<Event("enter", job[depth[i]].w),
                                                Event("exit", job[depth[i]].w)>>]
        /\ UNCHANGED <<ch, log>>
  /\ UNCHANGED <<wrappers, jobOf, ran, overlap, fault, registered, job, mu, since, panicv, lockOrder, runOrder>>

\* select { case v := <-ch: defer func() { ch <- v }(); j.Run()
\*          default: logger.Infof("skip") }
SkipSelect(i) ==
  /\ AtLayer(i, "Skip")
  /\ \/ /\ ch[Prim(i)][depth[i]] > 0
        /\ ch' = [ch EXCEPT ![Prim(i)][depth[i]] = @ - 1]
        /\ depth' = [depth EXCEPT ![i] = @ + 1]
        /\ trace' = [trace EXCEPT ![i] = Append(@, Event("enter", job[depth[i]].w))]
        /\ UNCHANGED <<pc, log>>
     \/ /\ ch[Prim(i)][depth[i]] = 0
        /\ log' = [log EXCEPT ![i] = Append(@, SkipRec)]
        /\ pc' = [pc EXCEPT ![i] = "ret"]
        /\ depth' = [depth EXCEPT ![i] = @ - 1]
        /\ trace' = [trace EXCEPT ![i] = @ \o <<Event("enter", job[depth[i]].w),
                                                Event("exit", job[depth[i]].w)>>]
        /\ UNCHANGED ch
  /\ UNCHANGED <<wrappers, jobOf, ran, overlap, fault, registered, job, mu, since, panicv, lockOrder, runOrder>>

\* Plausible bug: the token is never sent back.
SkipRestoreForgotten(i) ==
  /\ Unwinding(i, "Skip")
  /\ depth' = [depth EXCEPT ![i] = @ - 1]
  /\ trace' = [trace EXCEPT ![i] = Append(@, Event("exit", job[depth[i]].w))]
  /\ UNCHANGED <<wrappers, jobOf, ran, overlap, fault, registered, job, mu, ch, pc, since, panicv,
                 log, lockOrder, runOrder>>

\* Plausible bug: ch <- v written after j.Run() instead of deferred, so that
\* a panic unwinds the frame without sending the token back.
SkipRestoreNotDeferred(i) ==
  /\ Unwinding(i, "Skip")
  /\ pc[i] = "ret" => ch[Prim(i)][depth[i]] < ChanCap
  /\ ch' = [ch EXCEPT ![Prim(i)][depth[i]] = IF pc[i] = "panic" THEN @ ELSE @ + 1]
  /\ depth' = [depth EXCEPT ![i] = @ - 1]
  /\ trace' = [trace EXCEPT ![i] = Append(@, Event("exit", job[depth[i]].w))]
  /\ UNCHANGED <<wrappers, jobOf, ran, overlap, fault, registered, job, mu, pc, since, panicv, log,
                 lockOrder, runOrder>>

\* The deferred ch <- v runs, on return or on panic; the send blocks while
\* the buffer is full; a panic goes on.
SkipRestore(i) ==
  /\ Unwinding(i, "Skip")
  /\ ch[Prim(i)][depth[i]] < ChanCap
  /\ ch' = [ch EXCEPT ![Prim(i)][depth[i]] = @ + 1]
  /\ depth' = [depth EXCEPT ![i] = @ - 1]
  /\ trace' = [trace EXCEPT ![i] = Append(@, Event("exit", job[depth[i]].w))]
  /\ UNCHANGED <<wrappers, jobOf, ran, overlap, fault, registered, job, mu, pc, since, panicv, log,
                 lockOrder, runOrder>>

\* ------------------------------------------------------- the inner Job
\* The innermost j.Run(): the operation of the unwrapped Job begins.
JobRun(i) ==
  /\ AtLayer(i, "Job")
  /\ pc' = [pc EXCEPT ![i] = "job"]
  /\ runOrder' = Append(runOrder, i)
  /\ trace' = [trace EXCEPT ![i] = Append(@, Event("job", 0))]
  /\ UNCHANGED <<wrappers, jobOf, ran, overlap, fault, registered, job, mu, ch, depth, since, panicv, log,
                 lockOrder>>

\* The operation ends: it returns, or it panics with some value.
JobEnd(i) ==
  /\ pc[i] = "job"
  /\ \E out \in {NoPanic} \cup PanicValues :
       /\ pc' = [pc EXCEPT ![i] = IF out = NoPanic THEN "ret" ELSE "panic"]
       /\ panicv' = [panicv EXCEPT ![i] = out]
       /\ fault' = [fault EXCEPT ![i] = out]
  /\ depth' = [depth EXCEPT ![i] = @ - 1]
  /\ trace' = [trace EXCEPT ![i] = Append(@, Event("end", 0))]
  /\ UNCHANGED <<wrappers, jobOf, ran, overlap, registered, job, mu, ch, since, log, lockOrder, runOrder>>

\* The outermost Run() is over: it returned to the scheduler's goroutine
\* ("done"), or the panic reached it uncaught ("failed").  What the invoker
\* does with the panic is its own business; the other goroutines go on.
Return(i) ==
  /\ pc[i] \in {"ret", "panic"}
  /\ depth[i] = 0
  /\ pc' = [pc EXCEPT ![i] = IF pc[i] = "ret" THEN "done" ELSE "failed"]
  /\ UNCHANGED <<wrappers, jobOf, ran, overlap, fault, registered, job, mu, ch, depth, since, panicv, log,
                 trace, lockOrder, runOrder>>

\* Time passes, for every frame that waits in mu.Lock().  The clock is read
\* only by a Delay frame, at its entry and when it gets the lock, so only the
\* time a frame has waited is kept, and it is followed up to MaxTime.
Tick ==
  /\ \E i \in Invs : pc[i] = "lock"
  /\ \A i \in Invs : pc[i] = "lock" => since[i] < MaxTime
  /\ since' = [i \in Invs |-> IF pc[i] = "lock" THEN since[i] + 1 ELSE since[i]]
  /\ UNCHANGED <<wrappers, jobOf, ran, overlap, fault, registered, job, mu, ch, pc, depth, panicv, log,
                 trace, lockOrder, runOrder>>

\* Time passes, for every frame that waits in mu.Lock() and for every
\* operation that runs: the same as Tick, with the time the operations take
\* followed too, up to MaxTime, though nothing in the wrappers reads it.
Elapse ==
  /\ \E i \in Invs : pc[i] \in {"lock", "job"}
  /\ \A i \in Invs : pc[i] = "lock" => since[i] < MaxTime
  /\ \A i \in Invs : pc[i] = "job" => ran[i] < MaxTime
  /\ since' = [i \in Invs |-> IF pc[i] = "lock" THEN since[i] + 1 ELSE since[i]]
  /\ ran' = [i \in Invs |-> IF pc[i] = "job" THEN ran[i] + 1 ELSE ran[i]]
  /\ UNCHANGED <<wrappers, jobOf, overlap, fault, registered, job, mu, ch, pc, depth, panicv,
                 log, trace, lockOrder, runOrder>>

\* ------------------------------------------------------ specifications
Next ==
  \/ Register
  \/ Tick
  \/ \E i \in Invs :
       \/ Invoke(i)
       \/ RecoverEnter(i)
       \/ RecoverExit(i)
       \/ DelayStart(i)
       \/ DelayLock(i)
       \/ DelayUnlock(i)
       \/ SkipSelect(i)
       \/ SkipRestore(i)
       \/ JobRun(i)
       \/ JobEnd(i)
       \/ Return(i)

\* Any chain of at most MaxChain wrappers.
Spec == Init /\ [][Next]_vars

\* A Job wrapped by Recover alone.
InitRecover == InitOf({<<"Recover">>}, NumInv, {1})
NextRecover ==
  \/ Register
  \/ \E i \in Invs :
       \/ Invoke(i)
       \/ RecoverEnter(i)
       \/ RecoverExit(i)
       \/ JobRun(i)
       \/ JobEnd(i)
       \/ Return(i)
SpecRecover == InitRecover /\ [][NextRecover]_vars

\* A Job wrapped by DelayIfStillRunning alone.
InitDelay == InitOf({<<"Delay">>}, NumDelayInv, {1})
NextDelay ==
  \/ Register
  \/ Tick
  \/ \E i \in Invs :
       \/ Invoke(i)
       \/ DelayStart(i)
       \/ DelayLock(i)
       \/ DelayUnlock(i)
       \/ JobRun(i)
       \/ JobEnd(i)
       \/ Return(i)
SpecDelay == InitDelay /\ [][NextDelay]_vars

\* The same under the scheduling Go gives: a goroutine that can take a step
\* takes it, the operation of the Job ends, and a goroutine blocked in
\* mu.Lock() is not overtaken for ever (sync.Mutex starvation mode hands the
\* mutex to the longest waiter).  Nothing obliges the scheduler to invoke.
FairDelay ==
  \A i \in Invs :
    /\ WF_vars(DelayStart(i))
    /\ SF_vars(DelayLock(i))
    /\ WF_vars(JobRun(i))
    /\ WF_vars(JobEnd(i))
    /\ WF_vars(DelayUnlock(i))
    /\ WF_vars(Return(i))
FairSpecDelay == SpecDelay /\ FairDelay

\* Chain{DelayIfStillRunning} alone, two invocations, with the time the
\* operations take followed as well as the time spent waiting.
InitDelayTimed == InitOf({<<"Delay">>}, 2, {1})
NextDelayTimed ==
  \/ Register
  \/ Elapse
  \/ \E i \in Invs :
       \/ Invoke(i)
       \/ DelayStart(i)
       \/ DelayLock(i)
       \/ DelayUnlock(i)
       \/ JobRun(i)
       \/ JobEnd(i)
       \/ Return(i)
SpecDelayTimed == InitDelayTimed /\ [][NextDelayTimed]_vars

\* A Job wrapped by SkipIfStillRunning alone.
InitSkip == InitOf({<<"Skip">>}, NumInv, {1})
NextSkip ==
  \/ Register
  \/ \E i \in Invs :
       \/ Invoke(i)
       \/ SkipSelect(i)
       \/ SkipRestore(i)
       \/ JobRun(i)
       \/ JobEnd(i)
       \/ Return(i)
SpecSkip == InitSkip /\ [][NextSkip]_vars

\* The same under the scheduling Go gives: a goroutine that can take a step
\* takes it, and the operation of the Job ends.
FairSkip ==
  \A i \in Invs :
    /\ WF_vars(SkipSelect(i))
    /\ WF_vars(JobRun(i))
    /\ WF_vars(JobEnd(i))
    /\ WF_vars(SkipRestore(i))
    /\ WF_vars(Return(i))
FairSpecSkip == SpecSkip /\ FairSkip

\* Two Jobs, both wrapped by the one Chain{DelayIfStillRunning} or
\* Chain{SkipIfStillRunning} of the scheduler, that is by the same JobWrapper
\* value, each invocation being of either Job.  The clock is left aside.
InitJobs == InitOf({<<"Delay">>, <<"Skip">>}, NumDelayInv, {1, 2})
NextJobs ==
  \/ Register
  \/ \E i \in Invs :
       \/ Invoke(i)
       \/ DelayStart(i)
       \/ DelayLock(i)
       \/ DelayUnlock(i)
       \/ SkipSelect(i)
       \/ SkipRestore(i)
       \/ JobRun(i)
       \/ JobEnd(i)
       \/ Return(i)
SpecJobs == InitJobs /\ [][NextJobs]_vars

\* Chain{DelayIfStillRunning, SkipIfStillRunning}: Delay applied outermost.
InitDelaySkip == InitOf({<<"Delay", "Skip">>}, NumDelayInv, {1})
NextDelaySkip ==
  \/ Register
  \/ Tick
  \/ \E i \in Invs :
       \/ Invoke(i)
       \/ DelayStart(i)
       \/ DelayLock(i)
       \/ DelayUnlock(i)
       \/ SkipSelect(i)
       \/ SkipRestore(i)
       \/ JobRun(i)
       \/ JobEnd(i)
       \/ Return(i)
SpecDelaySkip == InitDelaySkip /\ [][NextDelaySkip]_vars

\* The chains made of Recover, DelayIfStillRunning and SkipIfStillRunning,
\* each at most once, in any order.
Orders == {ws \in SeqsUpTo(Kinds, Cardinality(Kinds)) :
            \A m, n \in 1..Len(ws) : ws[m] = ws[n] => m = n}

\* Any of these chains, under the scheduling Go gives (see FairDelay).  The
\* clock is left aside.
InitOrders == InitOf(Orders, NumDelayInv, {1})
Step(i) ==
  \/ RecoverEnter(i)
  \/ RecoverExit(i)
  \/ DelayStart(i)
  \/ DelayUnlock(i)
  \/ SkipSelect(i)
  \/ SkipRestore(i)
  \/ JobRun(i)
  \/ JobEnd(i)
  \/ Return(i)
NextOrders ==
  \/ Register
  \/ \E i \in Invs :
       \/ Invoke(i)
       \/ DelayLock(i)
       \/ Step(i)
FairOrders == \A i \in Invs : WF_vars(Step(i)) /\ SF_vars(DelayLock(i))
FairSpecOrders == InitOrders /\ [][NextOrders]_vars /\ FairOrders

\* ================================================================ claims
IsPrefix(s, t) == Len(s) <= Len(t) /\ SubSeq(t, 1, Len(s)) = s
IsEnter(e) == e.ev = "enter"
IsJob(e) == e.ev = "job"
HasRun(i) == SelectSeq(trace[i], IsJob) # <<>>
Over(i) == pc[i] \in {"done", "failed"}

\* m_k(m_k+1(...m_n(j))), written as the nesting itself
RECURSIVE Nest(_, _, _)
Nest(ws, k, j) ==
  IF k > Len(ws) THEN j
  ELSE <<[kind |-> ws[k], w |-> k]>> \o Nest(ws, k + 1, j)

\* entries m1..mn, the operation of j, exits mn..m1
ExpectedTrace(ws) ==
  [k \in 1..Len(ws) |-> Event("enter", k)]
    \o <<Event("job", 0), Event("end", 0)>>
    \o [k \in 1..Len(ws) |-> Event("exit", Len(ws) + 1 - k)]

\* C1: for a chain [m1..mn], n >= 1, Then(j) is m1(m2(...mn(j))): the first
\* wrapper is outermost and each is applied once; an invocation enters the
\* wrappers in the order m1, m2, ..., and one that reaches j has entered
\* m1..mn, then runs j, then leaves mn..m1.
C1_ThenNestsFirstOutermost ==
  (registered /\ Len(wrappers) >= 1) =>
    /\ job = Nest(wrappers, 1, BaseJob)
    /\ \A i \in Invs :
         /\ \A k \in 1..Len(SelectSeq(trace[i], IsEnter)) :
              SelectSeq(trace[i], IsEnter)[k].w = k
         /\ HasRun(i) => IsPrefix(trace[i], ExpectedTrace(wrappers))
         /\ (HasRun(i) /\ Over(i)) => trace[i] = ExpectedTrace(wrappers)

\* an invocation through two different wrappers has run j and is over
C1_Witness ==
  \E i \in Invs :
    /\ Len(wrappers) = 2 /\ wrappers[1] # wrappers[2]
    /\ pc[i] = "done"
    /\ trace[i] = <<Event("enter", 1), Event("enter", 2), Event("job", 0),
                    Event("end", 0), Event("exit", 2), Event("exit", 1)>>

\* C2: for a chain of zero wrappers Then(j) is j itself: an invocation runs
\* the operation of j once and nothing else (no wrapper entered, no record,
\* a panic of j reaches the invoker as it would from j).
C2_EmptyChainIsIdentity ==
  (registered /\ wrappers = <<>>) =>
    /\ job = BaseJob
    /\ \A i \in Invs :
         /\ IsPrefix(trace[i], <<Event("job", 0), Event("end", 0)>>)
         /\ log[i] = <<>>
         /\ Over(i) => trace[i] = <<Event("job", 0), Event("end", 0)>>
         /\ pc[i] = "done" => panicv[i] = NoPanic
         /\ pc[i] = "failed" => panicv[i] \in PanicValues

\* with no wrappers, one invocation returned and another panicked
C2_Witness ==
  /\ wrappers = <<>>
  /\ \E i, k \in Invs :
       /\ pc[i] = "done" /\ trace[i] = <<Event("job", 0), Event("end", 0)>>
       /\ pc[k] = "failed"

IsErrorRec(r) == r.level = "error"
IsSkipRec(r) == r.level = "info" /\ r.msg = "skip"
IsDelayRec(r) == r.level = "info" /\ r.msg = "delay"
Faulted(i) == fault[i] # NoPanic
\* record r carries panic value v (a nil panic as the runtime reports it)
Carries(r, v) == r.val = v \/ (v = "nil" /\ r.val = "PanicNilError")

RECURSIVE SumOver(_, _)
SumOver(f, S) ==
  IF S = {} THEN 0
  ELSE LET x == CHOOSE y \in S : TRUE IN f[x] + SumOver(f, S \ {x})

\* number of records of each kind handed to the logger
NumErrors == SumOver([i \in Invs |-> Len(SelectSeq(log[i], IsErrorRec))], Invs)
NumSkips == SumOver([i \in Invs |-> Len(SelectSeq(log[i], IsSkipRec))], Invs)
NumFaulted == Cardinality({i \in Invs : Faulted(i)})
Quiet == \A i \in Invs : pc[i] \in {"none", "new", "done", "failed"}

\* C3: an invocation of a Recover-wrapped Job whose operation panicked
\* returns normally to its invoker and has produced exactly one error
\* record, which carries the panic value.
C3_RecoverAbsorbsAndLogsOnce ==
  \A i \in Invs :
    (Over(i) /\ Faulted(i)) =>
      /\ pc[i] = "done"
      /\ Len(log[i]) = 1
      /\ IsErrorRec(log[i][1])
      /\ Carries(log[i][1], fault[i])

\* C4: no record for an invocation whose operation returned; once all
\* invocations are over, the error records are as many as the invocations
\* whose operation panicked.
C4_ErrorRecordsCountFaults ==
  /\ \A i \in Invs : (Over(i) /\ ~Faulted(i)) => log[i] = <<>>
  /\ Quiet => NumErrors = NumFaulted

InJob == {i \in Invs : pc[i] = "job"}
HasEnded(i) == \E k \in 1..Len(trace[i]) : trace[i][k].ev = "end"

\* C5: under DelayIfStillRunning at most one invocation is inside the
\* operation; the operations run one at a time in the order in which the
\* invocations got the lock: each run is by the latest goroutine to lock,
\* and nobody locks before the previous holder's operation has ended.
C5_DelaySerializesInLockOrder ==
  /\ Cardinality(InJob) <= 1
  /\ IsPrefix(runOrder, lockOrder)
  /\ Len(lockOrder) <= Len(runOrder) + 1
  /\ \A i \in InJob : lockOrder[Len(lockOrder)] = i
  /\ \A k \in 1..Len(lockOrder) - 1 : HasEnded(lockOrder[k])

\* the second holder of the lock runs the operation after the first, whose
\* operation panicked, has released it
C5_Witness ==
  \E i, k \in Invs :
    /\ pc[i] = "job" /\ pc[k] = "failed"
    /\ lockOrder = <<k, i>> /\ runOrder = <<k, i>>
    /\ k > i

\* C6: under DelayIfStillRunning every invocation issued runs its operation
\* to the end and returns to its invoker; none is dropped.
C6_DelayRunsEveryInvocation ==
  \A i \in Invs :
    Active(i) ~> (Over(i) /\ HasRun(i) /\ HasEnded(i))

\* all invocations issued are over and each has run; they overlapped, the
\* first to run panicked, and one of them waited more than a minute
C6_Witness ==
  /\ \A i \in 1..NumDelayInv : Over(i) /\ HasRun(i) /\ HasEnded(i)
  /\ overlap
  /\ pc[runOrder[1]] = "failed"
  /\ \E i \in Invs : SelectSeq(log[i], IsDelayRec) # <<>>

\* Invocation k has passed layer d and not left it: under Skip, it holds
\* the token of layer d; under Delay, the lock.
Holds(k, d) ==
  /\ Active(k)
  /\ IF pc[k] \in {"ret", "panic"} THEN depth[k] >= d ELSE depth[k] > d
Skipped(i) == SelectSeq(log[i], IsSkipRec) # <<>>
SkipLayers == {d \in 1..Len(job) : job[d].kind = "Skip"}

\* C7: under SkipIfStillRunning at most one invocation is inside the
\* operation, and an invocation that did not get the token is not kept to
\* run later: it has not run the operation and is on its way back to its invoker.
C7_SkipOneAtATimeNoQueue ==
  /\ Cardinality(InJob) <= 1
  /\ \A i \in Invs :
       Skipped(i) => /\ ~HasRun(i)
                     /\ pc[i] \in {"ret", "done"}
                     /\ depth[i] = 0

\* one invocation is inside the operation, two others were skipped and are over
C7_Witness ==
  \E i \in Invs :
    /\ pc[i] = "job"
    /\ \A k \in Invs \ {i} : pc[k] = "done" /\ Skipped(k)

\* the step in which invocation i passes the select of a Skip layer while
\* another invocation holds that layer's token
SkipsWhileHeld(i) ==
  /\ AtLayer(i, "Skip")
  /\ \E k \in Invs \ {i} : Holds(k, depth[i])
  /\ <<pc[i], depth[i]>>' # <<pc[i], depth[i]>>

\* C8: an invocation that arrives while another is in progress does not
\* run the operation and produces exactly one "skip" record; the one in
\* progress is not touched by it and goes on to end its operation.
C8_OverlappingInvocationSkips ==
  /\ [][\A i \in Invs :
          SkipsWhileHeld(i) =>
            /\ pc'[i] = "ret" /\ depth'[i] = depth[i] - 1
            /\ log'[i] = Append(log[i], SkipRec)
            /\ ch' = ch
            /\ \A k \in Invs \ {i} :
                 <<pc[k], depth[k], panicv[k], log[k], trace[k]>>'
                   = <<pc[k], depth[k], panicv[k], log[k], trace[k]>>]_vars
  /\ [](\A i \in Invs :
          Skipped(i) => ~HasRun(i) /\ log[i] = <<SkipRec>> /\ pc[i] \in {"ret", "done"})
  /\ \A k \in Invs : (\E d \in SkipLayers : Holds(k, d)) ~> (Over(k) /\ HasEnded(k))

\* an invocation was skipped and is over; the one that was in progress has
\* ended its operation by a panic and is over too
C8_Witness ==
  \E i, k \in Invs :
    /\ pc[i] = "done" /\ log[i] = <<SkipRec>> /\ ~HasRun(i)
    /\ pc[k] = "failed" /\ HasEnded(k)
    /\ runOrder = <<k>>

\* C9: invocations issued one after the other, each after the previous one
\* returned, all run the operation to its end; no skip record is produced.
C9_SequentialInvocationsAllRun ==
  ~overlap =>
    /\ NumSkips = 0
    /\ \A i \in Invs :
         /\ Over(i) => HasRun(i) /\ HasEnded(i)
         /\ Active(i) /\ depth[i] = 0 => HasEnded(i)

\* every invocation was issued after the previous one returned; all are over
C9_Witness ==
  /\ ~overlap
  /\ \A i \in Invs : pc[i] = "done" /\ HasEnded(i)

\* C10: once an invocation whose operation panicked is over, the token is
\* back in the channel (or taken again by a later invocation), and an
\* invocation issued after it, overlapping none, runs the operation.
C10_TokenRestoredAfterFault ==
  /\ \A i \in Invs : \A d \in SkipLayers :
       (pc[i] = "failed" /\ Faulted(i)) =>
          (ch[jobOf[i]][d] = NewChan \/ \E k \in Invs \ {i} : Holds(k, d))
  /\ (~overlap /\ \E i \in Invs : pc[i] = "failed") =>
       \A k \in Invs : ~Skipped(k) /\ (Over(k) => HasRun(k))

\* the operation of the first invocation panicked; the next one, issued
\* after it was over, has run the operation and returned
C10_Witness ==
  /\ ~overlap
  /\ \E i, k \in Invs :
       /\ pc[i] = "failed" /\ pc[k] = "done"
       /\ runOrder = <<i, k>>

\* ------------------------------------------------------------ C11
DelayLayers == {d \in 1..Len(job) : job[d].kind = "Delay"}
LockHolders(d) == {k \in Invs : Holds(k, d)}

\* C11: the mutex of DelayIfStillRunning is released on every way out of the
\* invocation, a panic of the operation included: it is locked exactly while
\* one invocation is between mu.Lock() and the deferred mu.Unlock(); once an
\* invocation whose operation panicked is over, the mutex is free or already
\* taken by another invocation; and an invocation waiting in mu.Lock() while
\* nobody holds the mutex can take it.
C11_DelayLockReleasedOnEveryExit ==
  \A d \in DelayLayers :
    /\ mu[1][d] = (LockHolders(d) # {})
    /\ Cardinality(LockHolders(d)) <= 1
    /\ \A i \in Invs :
         /\ (pc[i] = "failed" /\ Faulted(i)) =>
              (mu[1][d] = FALSE \/ LockHolders(d) \ {i} # {})
         /\ (pc[i] = "lock" /\ depth[i] = d /\ LockHolders(d) = {}) =>
              ENABLED DelayLock(i)

\* the operation of one invocation panicked while the other waited in
\* mu.Lock(); the panic went out of the wrapper, and the waiting invocation
\* then took the mutex, ran the operation and returned
C11_Witness ==
  \E i, k \in Invs :
    /\ pc[i] = "failed" /\ pc[k] = "done"
    /\ overlap
    /\ lockOrder = <<i, k>>
    /\ runOrder = <<i, k>>
    /\ since[k] > 0

\* ------------------------------------------------------------ C12
DelayRecs(i) == SelectSeq(log[i], IsDelayRec)
\* invocation i has been through mu.Lock() of its Delay frame
Acquired(i) == \E n \in 1..Len(lockOrder) : lockOrder[n] = i

\* C12: an invocation of a Job wrapped by DelayIfStillRunning hands the logger
\* exactly one "delay" record, carrying the measured wait, if it waited for
\* the mutex more than one minute, and none if it waited less or exactly one
\* minute; it hands it none before it has the mutex, and nothing else ever.
C12_DelayRecordIffWaitExceedsMinute ==
  \A i \in Invs :
    /\ log[i] = DelayRecs(i)
    /\ ~Acquired(i) => DelayRecs(i) = <<>>
    /\ Acquired(i) =>
         /\ since[i] > Minute  => DelayRecs(i) = <<DelayRec(since[i])>>
         /\ since[i] <= Minute => DelayRecs(i) = <<>>

\* both invocations are over: one waited exactly one minute for the mutex and
\* logged nothing, the other waited longer and logged one record
C12_Witness ==
  \E i, k \in Invs :
    /\ Over(i) /\ Over(k)
    /\ since[i] = Minute /\ log[i] = <<>>
    /\ since[k] > Minute /\ Len(log[k]) = 1 /\ log[k][1].dur = since[k]

\* ------------------------------------------------------------ C13
\* C13: an invocation never blocks inside SkipIfStillRunning: at the select
\* it can always take its step, whether the token is there (it takes it) or
\* not (default: it logs the skip and returns); and when the deferred ch <- v
\* runs, the buffer of the channel is empty, so the send does not block.
C13_SkipNeverBlocks ==
  \A i \in Invs :
    /\ AtLayer(i, "Skip") => ENABLED SkipSelect(i)
    /\ Unwinding(i, "Skip") =>
         /\ ch[jobOf[i]][depth[i]] = 0
         /\ ENABLED SkipRestore(i)

\* one invocation is about to give the token back after a panic of the
\* operation while another stands at the select with the channel empty, and
\* a third was skipped meanwhile
C13_Witness ==
  \E i, k, l \in Invs :
    /\ Unwinding(i, "Skip") /\ pc[i] = "panic"
    /\ AtLayer(k, "Skip") /\ ch[jobOf[k]][depth[k]] = 0
    /\ Skipped(l) /\ pc[l] = "done"

\* ------------------------------------------------------------ C14
\* the invocations between the receive from the channel of Skip layer d and
\* the deferred send that gives the token back
TokenHolders(d) == {k \in Invs : Holds(k, d)}
Idle(d) == TokenHolders(d) = {}

\* the step of invocation i that passes the select of Skip layer d
AtSelect(i, d) == AtLayer(i, "Skip") /\ depth[i] = d /\ (pc'[i] # pc[i] \/ depth'[i] # depth[i])

\* C14: a Job wrapped by SkipIfStillRunning is idle or running.  The channel
\* holds no or one token; it holds it exactly when no invocation is between
\* taking it and giving it back, and at most one is.  The channel loses the
\* token only in a step that passes the select while idle, gets it back only
\* in a step in which the invocation that took it leaves the wrapper after
\* its operation ended (by return or panic), and a step that passes the select
\* while running leaves the channel as it is and logs a skip.
C14_SkipIsIdleOrRunning ==
  /\ [](registered =>
         \A d \in SkipLayers :
           /\ ch[1][d] \in {0, 1}
           /\ (ch[1][d] = 1) = Idle(d)
           /\ Cardinality(TokenHolders(d)) <= 1)
  /\ [][registered =>
          \A d \in SkipLayers :
            /\ (ch[1][d] = 1 /\ ch'[1][d] = 0) =>
                 \E i \in Invs : AtSelect(i, d) /\ Idle(d) /\ TokenHolders(d)' = {i}
            /\ (ch[1][d] = 0 /\ ch'[1][d] = 1) =>
                 \E i \in Invs : /\ TokenHolders(d) = {i} /\ HasEnded(i)
                                 /\ Unwinding(i, "Skip") /\ depth'[i] = d - 1
            /\ \A i \in Invs :
                 (AtSelect(i, d) /\ ~Idle(d)) =>
                    /\ ch' = ch /\ mu' = mu
                    /\ TokenHolders(d)' = TokenHolders(d)
                    /\ log'[i] = Append(log[i], SkipRec)
                    /\ ~HasRun(i)']_vars

\* idle again after running: the operation of one invocation panicked and
\* the token is back, an invocation that arrived while it ran was skipped,
\* and the third has not been issued yet
C14_Witness ==
  \E i, k, l \in Invs :
    /\ pc[i] = "failed" /\ HasEnded(i)
    /\ pc[k] = "done" /\ Skipped(k)
    /\ pc[l] = "new"
    /\ Idle(1) /\ ch[1][1] = 1

\* ------------------------------------------------------------ C15
ErrorRecs(i) == SelectSeq(log[i], IsErrorRec)
HasRecover == \E n \in 1..Len(wrappers) : wrappers[n] = "Recover"

\* C15: when the operation of an invocation panicked and the invocation is
\* over, then, if the chain has a Recover layer (every layer is outside the
\* operation), the invocation returned normally and logged exactly one error
\* record, carrying the panic value; if it has none, the panic reached the
\* invoker, nothing was logged as an error, and every mutex and token the
\* invocation had taken is free again or already taken by another invocation.
C15_FaultAbsorbedOnlyUnderRecover ==
  \A i \in Invs :
    (Over(i) /\ Faulted(i)) =>
      IF HasRecover
        THEN /\ pc[i] = "done"
             /\ Len(ErrorRecs(i)) = 1
             /\ Carries(ErrorRecs(i)[1], fault[i])
        ELSE /\ pc[i] = "failed"
             /\ ErrorRecs(i) = <<>>
             /\ \A d \in 1..Len(job) :
                  /\ job[d].kind = "Delay" =>
                       (mu[1][d] = FALSE \/ \E k \in Invs \ {i} : Holds(k, d))
                  /\ job[d].kind = "Skip" =>
                       (ch[1][d] = NewChan \/ \E k \in Invs \ {i} : Holds(k, d))

\* ------------------------------------------------------------ C16
\* invocation k, of Job j, is between taking and giving back the mutex or
\* the token of layer d
HoldsOf(k, j, d) == jobOf[k] = j /\ Holds(k, d)

\* C16: applying the wrappers to the Jobs gives every Job one mutex or one
\* channel per layer, of its own; the mutex of a Job is locked, and the
\* channel of a Job is without its token, exactly while an invocation of
\* that same Job is between taking and giving back.  So an invocation of one
\* Job that waits in mu.Lock() while no invocation of its own Job holds the
\* mutex can take it, and one at the select while no invocation of its own
\* Job holds the token finds the token, whatever the invocations of the
\* other Job do; and only an invocation that overlapped one of its own Job
\* has been skipped.
C16_PrimitivePerWrappedJob ==
  registered =>
    /\ DOMAIN mu = JobIds /\ DOMAIN ch = JobIds
    /\ \A j \in JobIds :
         /\ Len(mu[j]) = Len(job) /\ Len(ch[j]) = Len(job)
         /\ \A d \in DelayLayers : mu[j][d] = (\E k \in Invs : HoldsOf(k, j, d))
         /\ \A d \in SkipLayers : (ch[j][d] = 0) = (\E k \in Invs : HoldsOf(k, j, d))
         /\ \A d \in SkipLayers : ch[j][d] \in {0, NewChan}
    /\ \A i \in Invs :
         LET alone == \A k \in Invs \ {i} : ~HoldsOf(k, jobOf[i], depth[i])
         IN  /\ (pc[i] = "lock" /\ alone) => ENABLED DelayLock(i)
             /\ (AtLayer(i, "Skip") /\ alone) => ch[jobOf[i]][depth[i]] = NewChan
             /\ Skipped(i) =>
                  \E k \in Invs \ {i} : jobOf[k] = jobOf[i] /\ trace[k] # <<>>

\* an invocation of one Job and an invocation of the other Job are inside
\* their operations at the same time
C16_Witness ==
  \E i, k \in Invs :
    /\ jobOf[i] # jobOf[k]
    /\ pc[i] = "job" /\ pc[k] = "job"
    /\ runOrder = <<i, k>>

\* ------------------------------------------------------------ C17
\* invocation i has the mutex and its operation has not begun
BeforeOperation(i) == AtLayer(i, "Job") /\ Acquired(i)

\* C17: what DelayIfStillRunning measures is the time from the start of the
\* invocation to the moment it has the mutex (since[i]), not the time its
\* operation takes (ran[i]).  Whether there is a delay record is settled
\* when the invocation has the mutex and its operation has not begun, by the
\* wait alone, and stays as it is while and after the operation runs: an
\* invocation that waited at most one minute has no delay record however
\* long its operation has run.
C17_DelayMeasuresWaitNotOperation ==
  \A i \in Invs :
    /\ ~Acquired(i) => log[i] = <<>> /\ ran[i] = 0
    /\ BeforeOperation(i) => ran[i] = 0
    /\ Acquired(i) =>
         /\ (since[i] > Minute) = (\E n \in 1..Len(log[i]) : IsDelayRec(log[i][n]))
         /\ Len(log[i]) <= 1
         /\ \A n \in 1..Len(log[i]) : log[i][n].dur = since[i]

\* an invocation got the mutex after at most one minute, its operation then
\* ran for more than one minute, and it is over without any record; the
\* other invocation waited more than a minute meanwhile and has its record
\* although its operation took no time
C17_Witness ==
  \E i, k \in Invs :
    /\ Over(i) /\ since[i] <= Minute /\ ran[i] > Minute /\ log[i] = <<>>
    /\ Over(k) /\ since[k] > Minute /\ ran[k] = 0 /\ Len(log[k]) = 1

\* ------------------------------------------------------------ C18
RunsOf(i) == Len(SelectSeq(trace[i], IsJob))
SkipsOf(i) == Len(SelectSeq(log[i], IsSkipRec))
HasSkip == \E n \in 1..Len(wrappers) : wrappers[n] = "Skip"
Completed == {i \in Invs : Over(i)}

\* C18: no wrapper retries.  Whatever the chain, an invocation never begins
\* the operation twice and never both runs it and logs a skip; once it is
\* over it has begun the operation exactly once, or, under a chain with
\* SkipIfStillRunning, logged exactly one skip instead; and when all
\* invocations are over, the operations begun and the skips logged add up to
\* the number of invocations.
C18_NoRetryRunOrSkipOnce ==
  /\ \A i \in Invs :
       /\ RunsOf(i) + SkipsOf(i) <= 1
       /\ Over(i) => RunsOf(i) + SkipsOf(i) = 1
       /\ (Over(i) /\ ~HasSkip) => RunsOf(i) = 1 /\ SkipsOf(i) = 0
  /\ Len(runOrder) = SumOver([i \in Invs |-> RunsOf(i)], Invs)
  /\ Quiet => Len(runOrder) + NumSkips = Cardinality(Completed)

\* under Chain{Recover, SkipIfStillRunning} two overlapping invocations are
\* over: the operation of one panicked and was not run again, the other was
\* skipped
C18_Witness ==
  /\ wrappers = <<"Recover", "Skip">>
  /\ \E i, k \in Invs :
       /\ Completed = {i, k}
       /\ Faulted(i) /\ RunsOf(i) = 1 /\ SkipsOf(i) = 0
       /\ RunsOf(k) = 0 /\ SkipsOf(k) = 1

\* ------------------------------------------------------------ C19
\* C19: under Chain{DelayIfStillRunning, SkipIfStillRunning} no invocation is
\* skipped, however the invocations interleave: the frames nest with Delay
\* outside Skip, so the token is taken after the mutex and given back before
\* the mutex is unlocked; whoever holds the token holds the mutex, and an
\* invocation that reaches the select finds the token there.
C19_DelayOutsideSkipNeverSkips ==
  registered =>
    /\ NumSkips = 0
    /\ \A i \in Invs : AtLayer(i, "Skip") => ch[1][depth[i]] = NewChan
    /\ \A dd \in DelayLayers : \A ds \in SkipLayers :
         /\ \A i \in Invs : Holds(i, ds) => Holds(i, dd) /\ mu[1][dd]
         /\ mu[1][dd] = FALSE => ch[1][ds] = NewChan

\* two overlapping invocations: the second waited for the mutex while the
\* first was inside the operation, and both have run it and returned
C19_Witness ==
  /\ overlap
  /\ \E i, k \in Invs :
       /\ lockOrder = <<i, k>> /\ runOrder = <<i, k>>
       /\ since[k] > 0
       /\ pc[i] = "done" /\ pc[k] = "done"

\* ------------------------------------------------------------ C20
AllRestored ==
  \A d \in 1..Len(job) :
    /\ job[d].kind = "Delay" => mu[1][d] = FALSE
    /\ job[d].kind = "Skip" => ch[1][d] = NewChan

\* C20: whatever the order of Recover, DelayIfStillRunning and
\* SkipIfStillRunning in the chain, concurrent invocations whose operations
\* end do not deadlock: while some invocation has not returned, one of them
\* can take a step; every invocation issued returns to its invoker, normally
\* or by panic; and whenever none is under way every mutex is unlocked and
\* every token is in its channel.
C20_NoDeadlockAllRestored ==
  /\ []((\E i \in Invs : Active(i)) => (\E i \in Invs : ENABLED (Step(i) \/ DelayLock(i))))
  /\ \A i \in Invs : Active(i) ~> Over(i)
  /\ [](registered /\ Quiet => AllRestored)

\* a chain of all three wrappers, Recover innermost or in the middle so that
\* a panic is stopped inside a Delay or Skip frame, or outermost; two
\* overlapping invocations are over, one after its operation panicked, and
\* the mutex and the token are back
C20_Witness ==
  /\ Len(wrappers) = 3
  /\ overlap
  /\ \A i \in 1..NumDelayInv : Over(i)
  /\ \E i \in Invs : Faulted(i)
  /\ \E i \in Invs : HasRun(i) /\ ~Faulted(i)
  /\ AllRestored

====
